---- MODULE Spec2Model ----
(***************************************************************************)
(* Model of the package-download resolvers and the downloads card of       *)
(* fastapi-backend/src/reports/overview.py.                                *)
(*                                                                         *)
(* Calendar dates are day numbers; JSON values are tagged records so that  *)
(* Python's truthiness, int() and datetime.fromisoformat() are computed    *)
(* the way the interpreter computes them.                                  *)
(***************************************************************************)
EXTENDS Integers, Sequences, FiniteSets, TLC

VARIABLES norm, pypi, npm, card, saas

vars == <<norm, pypi, npm, card, saas>>

(***************************************************************************)
(* Bounds of the model.                                                    *)
(***************************************************************************)
\* longest list handed to _normalize_entries on its own
MaxLen == 2
\* longest entries list an upstream payload carries
MaxEntries == 2
\* largest `days` argument of a resolver call
MaxDays == 2
\* longest commit list the GitHub API answers with
MaxCommits == 2

\* today = datetime.utcnow().date(), as a day number
Today == 2

\* dates run from 1 to one day after today
LastDate == Today + 1

(***************************************************************************)
(* JSON / Python values.  t is the Python type, n the payload:             *)
(*   absent    the key is not in the dict                                  *)
(*   none      None                                                        *)
(*   int       the integer n                                               *)
(*   numstr    the decimal string of n, e.g. "10"                          *)
(*   datestr   the ISO date string "YYYY-MM-DD" of day n                   *)
(*   dtstr     an ISO datetime string "YYYY-MM-DDTHH:MM:SS" on day n       *)
(*   badstr    a non-empty string that is neither a number nor a date      *)
(*   emptystr  ""                                                          *)
(***************************************************************************)
Absent == [t |-> "absent", n |-> 0]
NoneV == [t |-> "none", n |-> 0]
IntV(i) == [t |-> "int", n |-> i]
NumStr(i) == [t |-> "numstr", n |-> i]
DateStr(d) == [t |-> "datestr", n |-> d]
DtStr(d) == [t |-> "dtstr", n |-> d]
BadStr == [t |-> "badstr", n |-> 0]
EmptyStr == [t |-> "emptystr", n |-> 0]

\* bool(v)
Truthy(v) ==
    CASE v.t = "none" -> FALSE
      [] v.t = "int" -> v.n # 0
      [] v.t = "emptystr" -> FALSE
      [] OTHER -> TRUE

\* a or b
PyOr(a, b) == IF Truthy(a) THEN a ELSE b

\* d.get(k), v being what the dict holds under k
Get(v) == IF v.t = "absent" THEN NoneV ELSE v

\* d.get(k, default)
GetOr(v, default) == IF v.t = "absent" THEN default ELSE v

\* datetime.fromisoformat(str(v)) does not raise
IsoParses(v) == v.t \in {"datestr", "dtstr"}

\* datetime.fromisoformat(str(v)).date(), as a day number
IsoDate(v) == v.n

\* int(v) does not raise
IntParses(v) == v.t \in {"int", "numstr"}

\* int(v)
IntOf(v) == v.n

(***************************************************************************)
(* A list item of a payload: a dict read through the seven aliases, or a   *)
(* value that is no dict.                                                  *)
(***************************************************************************)
Item(isdict, date, day, key, downloads, count, value, downloads_count) ==
    [isdict |-> isdict, date |-> date, day |-> day, key |-> key,
     downloads |-> downloads, count |-> count, value |-> value,
     downloads_count |-> downloads_count]

\* {"date": <iso string of day d>, "downloads": c}
Point(d, c) == Item(TRUE, DateStr(d), Absent, Absent, IntV(c), Absent, Absent, Absent)

NotADict == Item(FALSE, Absent, Absent, Absent, Absent, Absent, Absent, Absent)

\* list.sort(key=lambda x: x["date"]): a stable sort on the date string
RECURSIVE SortByDate(_)
InsertByDate(sorted, x) ==
    LET n == Cardinality({i \in 1..Len(sorted) : sorted[i].date.n <= x.date.n})
    IN  SubSeq(sorted, 1, n) \o <<x>> \o SubSeq(sorted, n + 1, Len(sorted))
SortByDate(s) ==
    IF s = <<>> THEN <<>>
    ELSE InsertByDate(SortByDate(SubSeq(s, 1, Len(s) - 1)), s[Len(s)])

\* the date alias chain of _normalize_entries
DateOf(item) == PyOr(PyOr(Get(item.date), Get(item.day)), Get(item.key))

\* the count alias chain of _normalize_entries
DownloadsOf(item) ==
    PyOr(PyOr(PyOr(Get(item.downloads), Get(item.count)), Get(item.value)),
         Get(item.downloads_count))

\* the body of the for loop of _normalize_entries: the points one item adds
NormalizeItem(item) ==
    IF ~item.isdict THEN <<>>
    ELSE IF Truthy(DateOf(item)) /\ DownloadsOf(item).t # "none"
              /\ IsoParses(DateOf(item)) /\ IntParses(DownloadsOf(item))
         THEN <<Point(IsoDate(DateOf(item)), IntOf(DownloadsOf(item)))>>
         ELSE <<>>

RECURSIVE Collect(_)
Collect(entries) ==
    IF entries = <<>> THEN <<>>
    ELSE NormalizeItem(Head(entries)) \o Collect(Tail(entries))

\* _normalize_entries(entries)
NormalizeEntries(entries) == SortByDate(Collect(entries))

(***************************************************************************)
(* Inputs.                                                                 *)
(***************************************************************************)
\* the items lists are drawn from when _normalize_entries is run on its own
ItemPool ==
    { Item(TRUE, DateStr(2), Absent, Absent, IntV(3), Absent, Absent, Absent),
      Item(TRUE, DtStr(1), Absent, Absent, NumStr(10), Absent, Absent, Absent),
      Item(TRUE, Absent, DateStr(1), Absent, Absent, IntV(-1), Absent, Absent),
      Item(TRUE, DateStr(1), Absent, Absent, NumStr(0), Absent, Absent, Absent),
      Item(TRUE, DateStr(2), Absent, Absent, IntV(0), Absent, IntV(5), Absent),
      Item(TRUE, DateStr(1), Absent, Absent, IntV(0), Absent, Absent, Absent),
      Item(TRUE, Absent, Absent, BadStr, Absent, Absent, IntV(1), Absent),
      Item(TRUE, DateStr(1), Absent, Absent, BadStr, Absent, Absent, Absent),
      Item(TRUE, NoneV, EmptyStr, DateStr(3), NoneV, Absent, Absent, IntV(2)),
      NotADict }

SeqsUpTo(S, n) == UNION {[1..k -> S] : k \in 0..n}

(***************************************************************************)
(* Upstream responses.  k is what the request ended in:                    *)
(*   neterr  the request raised (connection error, timeout)                *)
(*   http    a response with `status`; json says whether the body parses   *)
(*           as JSON; shape and entries describe the parsed body           *)
(***************************************************************************)
Resp(k, status, json, shape, entries) ==
    [k |-> k, status |-> status, json |-> json, shape |-> shape, entries |-> entries]

NetErr == Resp("neterr", 0, FALSE, "none", <<>>)
HttpStatus(status) == Resp("http", status, FALSE, "none", <<>>)
BadJson == Resp("http", 200, FALSE, "none", <<>>)
Json(shape, entries) == Resp("http", 200, TRUE, shape, entries)

\* the items an upstream list is drawn from: a plain point, a negative count
\* and a second entry for day 1, with a string count
PlainItem == Item(TRUE, DateStr(1), Absent, Absent, IntV(5), Absent, Absent, Absent)
NegativeItem == Item(TRUE, DateStr(2), Absent, Absent, IntV(-1), Absent, Absent, Absent)
SameDayItem == Item(TRUE, DtStr(1), Absent, Absent, NumStr(7), Absent, Absent, Absent)
UndatedItem == Item(TRUE, BadStr, Absent, Absent, IntV(1), Absent, Absent, Absent)

PayloadItems == {PlainItem, NegativeItem, SameDayItem}

\* the lists a resolver called on its own receives
DirectLists == SeqsUpTo(PayloadItems, MaxEntries)

\* the lists a resolver called by the card, or run as one of two concurrent
\* tasks, receives: few, so that the series of the packages can be told apart
CardLists == {<<>>, <<PlainItem>>, <<NegativeItem, SameDayItem, PlainItem>>}

\* the lists a resolver receives, by who called it
ListsFor(caller) == IF caller # "direct" THEN CardLists ELSE DirectLists

\* the lists the less common body shapes are tried with
ProbeLists == {<<PlainItem>>, <<UndatedItem>>}

\* the body shapes other than `main` that a resolver is tried with
ShapesFor(caller, all, main) == IF caller # "direct" THEN {} ELSE all \ {main}

\* the failures every HTTP request can end in
HttpFailures == {NetErr, HttpStatus(500), BadJson}

\* the failures a resolver's requests end in, by who called it
FailuresFor(caller) == IF caller # "direct" THEN {NetErr} ELSE HttpFailures

(***************************************************************************)
(* The process environment read by _fetch_pypi_downloads.                  *)
(*   main_token  __main__ has a CONFIG whose tokens.pypi is set            *)
(*   vars        the environment variables that are set                    *)
(*   bq_lib      google.cloud.bigquery can be imported                     *)
(***************************************************************************)
Env(main_token, envvars, bq_lib) ==
    [main_token |-> main_token, vars |-> envvars, bq_lib |-> bq_lib]

EnvPool ==
    { Env(FALSE, {}, FALSE),
      Env(TRUE, {}, TRUE),
      Env(FALSE, {"PEPY_TOKEN"}, TRUE),
      Env(FALSE, {"GOOGLE_APPLICATION_CREDENTIALS"}, TRUE),
      Env(FALSE, {"BIGQUERY_CREDENTIALS"}, FALSE),
      Env(FALSE, {"PEPY_API_KEY", "GOOGLE_APPLICATION_CREDENTIALS"}, TRUE) }

\* the environments a call runs in, by who called it
EnvsFor(caller) ==
    IF caller # "direct"
    THEN {Env(FALSE, {}, FALSE), Env(FALSE, {"PEPY_KEY", "BIGQUERY_CREDENTIALS"}, TRUE)}
    ELSE EnvPool

\* pepy_key is set after lines 273-285
HasPepyKey(env) ==
    env.main_token \/ env.vars \cap {"PEPY_API_KEY", "PEPY_KEY", "PEPY_TOKEN"} # {}

\* os.getenv("GOOGLE_APPLICATION_CREDENTIALS") or os.getenv("BIGQUERY_CREDENTIALS")
HasBqCredentials(env) ==
    env.vars \cap {"GOOGLE_APPLICATION_CREDENTIALS", "BIGQUERY_CREDENTIALS"} # {}

(***************************************************************************)
(* PyPI release metadata: the release files of all versions, each with its  *)
(* upload_time_iso_8601 and upload_time, or a failed lookup.  start 0      *)
(* stands for start_date = None.                                           *)
(***************************************************************************)
File(upload_time_iso_8601, upload_time) == <<upload_time_iso_8601, upload_time>>

ReleaseFiles ==
    { <<>>,
      <<File(NoneV, Absent)>>,
      <<File(BadStr, Absent), File(DtStr(Today), DtStr(Today))>>,
      <<File(DtStr(LastDate), Absent)>>,
      <<File(DtStr(Today), Absent), File(Absent, DtStr(1))>>,
      <<File(EmptyStr, DtStr(1)), File(DtStr(LastDate), Absent)>> }

MetaResponses(caller) ==
    IF caller # "direct" THEN {NetErr, Json("releases", <<File(DtStr(1), Absent)>>)}
    ELSE HttpFailures \cup {HttpStatus(404)}
            \cup {Json("releases", f) : f \in ReleaseFiles}

\* t = f.get("upload_time_iso_8601") or f.get("upload_time")
UploadTime(f) == PyOr(Get(f[1]), Get(f[2]))

\* the upload dates the loop of lines 177-187 takes into account
UploadDates(files) ==
    {IsoDate(UploadTime(files[i])) :
        i \in {j \in 1..Len(files) :
                  Truthy(UploadTime(files[j])) /\ IsoParses(UploadTime(files[j]))}}

\* min of a non-empty set of day numbers
MinOf(S) == CHOOSE m \in S : \A x \in S : m <= x

\* `earliest` after the loop, 0 for None
Earliest(files) == IF UploadDates(files) = {} THEN 0 ELSE MinOf(UploadDates(files))

\* DerivedStart without the `earliest <= today` test
DerivedStartUnchecked(meta) ==
    IF meta.k = "http" /\ meta.status \in 200..299 /\ meta.json
    THEN Earliest(meta.entries)
    ELSE 0

\* start_date after lines 168-192
DerivedStart(meta) ==
    IF meta.k = "http" /\ meta.status \in 200..299 /\ meta.json
    THEN IF Earliest(meta.entries) # 0 /\ Earliest(meta.entries) <= Today
         THEN Earliest(meta.entries) ELSE 0
    ELSE 0

(***************************************************************************)
(* Candidates of the PyPI chain.                                           *)
(***************************************************************************)
\* PypistatsCandidates without the `if start_date:` test
PypistatsRangeAlways(start) == <<"range_colon", "range_slash", "overall", "recent">>

\* pypistats_candidates, lines 221-233
PypistatsCandidates(start) ==
    (IF start # 0 THEN <<"range_colon", "range_slash">> ELSE <<>>)
        \o <<"overall", "recent">>

\* pepy_candidates, lines 292-299
PepyCandidates(start) ==
    (IF start # 0 THEN <<"pepy_range">> ELSE <<>>)
        \o <<"pepy_project", "pepy_api_project">>

\* normalized[-days:]
LastDays(s, days) ==
    LET from == IF days > 0 THEN (IF Len(s) > days THEN Len(s) - days ELSE 0)
                ELSE (IF -days < Len(s) THEN -days ELSE Len(s))
    IN  SubSeq(s, from + 1, Len(s))

\* Cap keeping the oldest `days` points instead of the most recent
CapHead(s, days) == IF Len(s) > days THEN SubSeq(s, 1, days) ELSE s

\* lines 261-262, 332-333, 394-395
Cap(s, days) == IF Len(s) > days THEN LastDays(s, days) ELSE s

StatsShapes == {"list", "data_list", "data_downloads", "other"}

\* `entries` after lines 244-256
StatsEntries(resp) ==
    IF resp.shape \in {"list", "data_list", "data_downloads"} THEN resp.entries ELSE <<>>

PepyShapes == {"list", "downloads_map", "downloads_daily", "daily", "data_list", "other"}

\* a date -> count mapping whose keys are strings and whose values are ints
IsCountMap(entries) ==
    \A i \in 1..Len(entries) :
        /\ entries[i].isdict
        /\ entries[i].date.t \in {"datestr", "dtstr", "badstr"}
        /\ entries[i].downloads.t = "int"
        /\ \A j \in 1..Len(entries) : entries[j].date = entries[i].date => j = i

\* `entries` after lines 310-328
PepyEntries(resp) ==
    CASE resp.shape = "downloads_map" ->
            [i \in 1..Len(resp.entries) |->
                Item(TRUE, resp.entries[i].date, Absent, Absent,
                     resp.entries[i].downloads, Absent, Absent, Absent)]
      [] resp.shape \in {"list", "downloads_daily", "daily", "data_list"} -> resp.entries
      [] OTHER -> <<>>

StatsResponses(caller) ==
    FailuresFor(caller)
        \cup {Json("data_list", e) : e \in ListsFor(caller)}
        \cup {Json(sh, e) : sh \in ShapesFor(caller, StatsShapes, "data_list"),
                             e \in ProbeLists}

PepyResponses(caller) ==
    FailuresFor(caller)
        \cup {Json("downloads_daily", e) : e \in ListsFor(caller)}
        \cup {Json(sh, e) : sh \in ShapesFor(caller, PepyShapes, "downloads_daily"),
                             e \in {l \in ProbeLists : IsCountMap(l)}}

\* what one pass of a candidate loop comes to: "failed" (an exception caught
\* at the candidate), "status" (not 200), "empty" or "series"; `normalized` is
\* _normalize_entries(entries) of the body
CandidateOutcome(resp, normalized) ==
    CASE resp.k = "neterr" -> "failed"
      [] resp.status # 200 -> "status"
      [] ~resp.json -> "failed"
      [] normalized = <<>> -> "empty"
      [] OTHER -> "series"

(***************************************************************************)
(* One call of _fetch_pypi_downloads(package_name, days).                  *)
(*   pc       where the call stands: off, idle, meta, stats, pepy_setup,   *)
(*            pepy, bq, bq_wait, exhausted, done                           *)
(*   client   the httpx.AsyncClient of the `async with`: none, open, closed*)
(*   warehouse  the bigquery.Client of line 367: none, open, closed        *)
(*   thread   where the warehouse query runs while the call waits for it:  *)
(*            none, worker (a thread of the pool), loop (the event loop)   *)
(*   start    start_date as a day number, 0 for None                       *)
(*   cands,i  the candidate list being looped over and the loop position   *)
(*   log      the requests issued so far, in order                         *)
(*   flight   the requests issued and not yet answered                     *)
(*   last     what the latest candidate came to                            *)
(*   normalized  the series of the latest candidate before the cap         *)
(*   outcome  running, returned (result is the series) or raised (error)   *)
(***************************************************************************)
PypiPackages == {"cereon-sdk"}

NoError == [type |-> "none", package |-> "none"]

PypiIdle ==
    [pc |-> "off", caller |-> "none", package |-> "none", days |-> 0,
     env |-> Env(FALSE, {}, FALSE), client |-> "none", warehouse |-> "none",
     thread |-> "none",
     meta |-> NetErr, start |-> 0,
     cands |-> <<>>, i |-> 0, log |-> <<>>, flight |-> {}, last |-> "none",
     normalized |-> <<>>,
     outcome |-> "running", result |-> <<>>, error |-> NoError]

\* a request as the upstream sees it: the endpoint, the package name in the
\* URL, the date range (0 when the URL has none), the N of last-N (0 when the
\* URL has none) and whether the pepy API key headers are sent
Request(cand, package, start, until, n, auth) ==
    [cand |-> cand, package |-> package, start |-> start, until |-> until,
     n |-> n, auth |-> auth]

\* lines 164-167: the call is entered and the client opened
PypiEntered(caller, package, days, env) ==
    [PypiIdle EXCEPT !.pc = "meta", !.caller = caller, !.package = package,
                     !.days = days, !.env = env, !.client = "open"]

\* PypiReturned without the `return`: the series is kept and the loop goes on
PypiKeptLooping(p, log, series) ==
    [p EXCEPT !.log = log, !.flight = {}, !.last = "series", !.result = series,
              !.i = p.i + 1,
              !.pc = IF p.i = Len(p.cands) THEN "exhausted" ELSE p.pc]

\* `return series` from inside the `async with`
PypiReturned(p, log, series) ==
    [p EXCEPT !.pc = "done", !.log = log, !.flight = {}, !.last = "series",
              !.client = "closed", !.outcome = "returned", !.result = series]

\* PypiAdvanced without the candidate's try/except: an exception leaves the call
PypiAborted(p, log, why, after) ==
    IF why = "failed"
    THEN [p EXCEPT !.log = log, !.flight = {}, !.last = why, !.pc = "done",
                   !.client = "closed", !.outcome = "raised",
                   !.error = [type |-> "HTTPError", package |-> p.package]]
    ELSE [p EXCEPT !.log = log, !.flight = {}, !.last = why, !.i = p.i + 1,
                   !.pc = IF p.i = Len(p.cands) THEN after ELSE p.pc]

\* a candidate loop moves on after a candidate that gave nothing
PypiAdvanced(p, log, why, after) ==
    [p EXCEPT !.log = log, !.flight = {}, !.last = why, !.i = p.i + 1,
              !.pc = IF p.i = Len(p.cands) THEN after ELSE p.pc]

\* _fetch_pypi_downloads called on its own
PypiCall ==
    /\ pypi.pc = "idle"
    /\ npm.pc = "idle"
    /\ \E package \in PypiPackages, days \in 1..MaxDays, env \in EnvsFor("direct") :
          pypi' = PypiEntered("direct", package, days, env)
    /\ UNCHANGED <<norm, npm, card, saas>>

\* the request the call issues where it stands: the metadata lookup (line
\* 172) or the candidate the loop is at (lines 238 and 305)
PypiRequest(p, cand) ==
    CASE p.pc = "meta" -> Request("pypi_json", p.package, 0, 0, 0, FALSE)
      [] p.pc = "stats" ->
            IF cand \in {"range_colon", "range_slash"}
            THEN Request(cand, p.package, p.start, Today, 0, FALSE)
            ELSE Request(cand, p.package, 0, 0, 0, FALSE)
      [] p.pc = "pepy" ->
            IF cand = "pepy_range"
            THEN Request(cand, p.package, p.start, Today, 0, TRUE)
            ELSE Request(cand, p.package, 0, 0, 0, TRUE)

\* PypiSend as a fan-out: the candidates left in the list are requested at once
PypiSendAll ==
    /\ pypi.pc \in {"meta", "stats", "pepy"}
    /\ pypi.flight = {}
    /\ pypi' = IF pypi.pc = "meta"
               THEN [pypi EXCEPT !.flight = {PypiRequest(pypi, "pypi_json")},
                                 !.log = Append(pypi.log, PypiRequest(pypi, "pypi_json"))]
               ELSE [pypi EXCEPT
                       !.flight = {PypiRequest(pypi, pypi.cands[k]) :
                                      k \in pypi.i..Len(pypi.cands)},
                       !.log = Append(pypi.log, PypiRequest(pypi, pypi.cands[pypi.i]))]
    /\ UNCHANGED <<norm, npm, card, saas>>

\* `await client.get(url)`, lines 172, 238 and 305: the request is issued and
\* the call waits for its answer
PypiSend ==
    /\ pypi.pc \in {"meta", "stats", "pepy"}
    /\ pypi.flight = {}
    /\ LET req == PypiRequest(pypi, IF pypi.pc = "meta" THEN "pypi_json"
                                    ELSE pypi.cands[pypi.i])
       IN  pypi' = [pypi EXCEPT !.flight = {req}, !.log = Append(pypi.log, req)]
    /\ UNCHANGED <<norm, npm, card, saas>>

\* lines 168-233: the release metadata lookup and the pypistats candidates
PypiMetadata ==
    /\ pypi.pc = "meta"
    /\ pypi.flight # {}
    /\ \E meta \in MetaResponses(pypi.caller) :
          pypi' = [pypi EXCEPT
                     !.pc = "stats", !.meta = meta, !.start = DerivedStart(meta),
                     !.cands = PypistatsCandidates(DerivedStart(meta)), !.i = 1,
                     !.flight = {}]
    /\ UNCHANGED <<norm, npm, card, saas>>

\* lines 235-270: one pass of the pypistats loop
PypiStats ==
    /\ pypi.pc = "stats"
    /\ pypi.flight # {}
    /\ \E resp \in StatsResponses(pypi.caller) :
          LET log == pypi.log
              normalized == NormalizeEntries(StatsEntries(resp))
              why == CandidateOutcome(resp, normalized)
          IN  pypi' = IF why = "series"
                      THEN PypiReturned([pypi EXCEPT !.normalized = normalized], log,
                                        Cap(normalized, pypi.days))
                      ELSE PypiAdvanced(pypi, log, why, "pepy_setup")
    /\ UNCHANGED <<norm, npm, card, saas>>

\* PypiPepySetup without the `if pepy_key:` test: pepy is asked in any case
PypiPepyUnkeyed ==
    /\ pypi.pc = "pepy_setup"
    /\ pypi' = [pypi EXCEPT !.pc = "pepy", !.cands = PepyCandidates(pypi.start), !.i = 1]
    /\ UNCHANGED <<norm, npm, card, saas>>

\* lines 272-301 and 342-343: the pepy key and candidates; pepy is skipped
\* without a key
PypiPepySetup ==
    /\ pypi.pc = "pepy_setup"
    /\ pypi' = IF HasPepyKey(pypi.env)
               THEN [pypi EXCEPT !.pc = "pepy", !.cands = PepyCandidates(pypi.start),
                                 !.i = 1]
               ELSE [pypi EXCEPT !.pc = "bq", !.cands = PepyCandidates(pypi.start),
                                 !.i = 1]
    /\ UNCHANGED <<norm, npm, card, saas>>

\* lines 302-341: one pass of the pepy loop
PypiPepy ==
    /\ pypi.pc = "pepy"
    /\ pypi.flight # {}
    /\ \E resp \in PepyResponses(pypi.caller) :
          LET log == pypi.log
              normalized == NormalizeEntries(PepyEntries(resp))
              why == CandidateOutcome(resp, normalized)
          IN  pypi' = IF why = "series"
                      THEN PypiReturned([pypi EXCEPT !.normalized = normalized], log,
                                        Cap(normalized, pypi.days))
                      ELSE PypiAdvanced(pypi, log, why, "bq")
    /\ UNCHANGED <<norm, npm, card, saas>>

\* a set of day numbers as an ascending sequence
RECURSIVE Ascending(_)
Ascending(S) ==
    IF S = {} THEN <<>> ELSE <<MinOf(S)>> \o Ascending(S \ {MinOf(S)})

\* bq_start, line 366: the derived start, else five years back (before day 1)
BqStart(start) == IF start # 0 THEN start ELSE 1

\* what the warehouse query gives: it raises, or rows grouped by day and
\* ordered by day between bq_start and today, each with a count of at least 1
BqAnswers(start) ==
    {[ok |-> FALSE, rows |-> <<>>]}
        \cup {[ok |-> TRUE, rows |-> Ascending(S)] : S \in SUBSET (BqStart(start)..Today)}

\* lines 389-392: the rows as entries, sorted by date
BqEntries(rows) == SortByDate([i \in 1..Len(rows) |-> Point(rows[i], rows[i] + 1)])

\* BqDispatch as a plain call of _run_bq(): the query runs on the event loop
BqDispatchInline == "loop"

\* rows = await asyncio.to_thread(_run_bq), line 387: the query runs in a
\* worker thread
BqDispatch == "worker"

\* PypiBigQuery with the import outside the try: a missing library leaves the call
PypiBigQueryUnguarded ==
    /\ pypi.pc = "bq"
    /\ pypi' =
          IF ~HasBqCredentials(pypi.env) THEN [pypi EXCEPT !.pc = "exhausted"]
          ELSE IF ~pypi.env.bq_lib
               THEN [pypi EXCEPT !.pc = "done", !.client = "closed",
                                 !.outcome = "raised",
                                 !.error = [type |-> "ImportError",
                                            package |-> pypi.package]]
               ELSE [pypi EXCEPT !.pc = "bq_wait", !.warehouse = "open",
                                 !.thread = BqDispatch,
                                 !.flight = {Request("bigquery", pypi.package,
                                                     BqStart(pypi.start), Today, 0, FALSE)},
                                 !.log = Append(pypi.log,
                                            Request("bigquery", pypi.package,
                                                    BqStart(pypi.start), Today, 0, FALSE))]
    /\ UNCHANGED <<norm, npm, card, saas>>

\* lines 345-387: the warehouse candidate is skipped without credentials and
\* fails without the client library; otherwise a bigquery.Client is made, which
\* nothing closes, and the query is sent to a thread
PypiBigQuery ==
    /\ pypi.pc = "bq"
    /\ pypi' =
          IF ~HasBqCredentials(pypi.env) THEN [pypi EXCEPT !.pc = "exhausted"]
          ELSE IF ~pypi.env.bq_lib
               THEN [pypi EXCEPT !.pc = "exhausted", !.last = "failed"]
               ELSE [pypi EXCEPT !.pc = "bq_wait", !.warehouse = "open",
                                 !.thread = BqDispatch,
                                 !.flight = {Request("bigquery", pypi.package,
                                                     BqStart(pypi.start), Today, 0, FALSE)},
                                 !.log = Append(pypi.log,
                                            Request("bigquery", pypi.package,
                                                    BqStart(pypi.start), Today, 0, FALSE))]
    /\ UNCHANGED <<norm, npm, card, saas>>

\* lines 387-401: the thread's answer
PypiBigQueryDone ==
    /\ pypi.pc = "bq_wait"
    /\ \E ans \in BqAnswers(pypi.start) :
          pypi' = IF ~ans.ok
                  THEN [pypi EXCEPT !.pc = "exhausted", !.flight = {}, !.thread = "none",
                                    !.last = "failed"]
                  ELSE IF BqEntries(ans.rows) = <<>>
                       THEN [pypi EXCEPT !.pc = "exhausted", !.flight = {},
                                         !.thread = "none", !.last = "empty"]
                       ELSE PypiReturned(
                                [pypi EXCEPT !.normalized = BqEntries(ans.rows),
                                             !.thread = "none"],
                                pypi.log, Cap(BqEntries(ans.rows), pypi.days))
    /\ UNCHANGED <<norm, npm, card, saas>>

\* lines 403-406: the client is released and the RuntimeError raised
PypiRaise ==
    /\ pypi.pc = "exhausted"
    /\ pypi' = [pypi EXCEPT !.pc = "done", !.client = "closed", !.outcome = "raised",
                            !.error = [type |-> "RuntimeError",
                                       package |-> pypi.package]]
    /\ UNCHANGED <<norm, npm, card, saas>>

\* the steps of one call
PypiStep ==
    \/ PypiSend
    \/ PypiMetadata
    \/ PypiStats
    \/ PypiPepySetup
    \/ PypiPepy
    \/ PypiBigQuery
    \/ PypiBigQueryDone
    \/ PypiRaise

(***************************************************************************)
(* One call of _fetch_npm_downloads(package_name, days).                   *)
(*   pc        off, idle, registry, downloads, done                        *)
(*   name      the package name after lines 47-50                          *)
(*   registry  the answer of the registry metadata lookup                  *)
(*   answer    the answer of the downloads request                         *)
(***************************************************************************)
NpmPackages == {"cereon-dashboard", "cereon-recharts", "left-pad"}

\* lines 47-50: the chart keys stand for scoped registry names
RegistryName(package) ==
    CASE package = "cereon-dashboard" -> "@cereon/dashboard"
      [] package = "cereon-recharts" -> "@cereon/recharts"
      [] OTHER -> package

\* quote(package_name, safe="")
Quote(name) ==
    CASE name = "@cereon/dashboard" -> "%40cereon%2Fdashboard"
      [] name = "@cereon/recharts" -> "%40cereon%2Frecharts"
      [] OTHER -> name

NpmIdle ==
    [pc |-> "off", caller |-> "none", package |-> "none", name |-> "none", days |-> 0,
     client |-> "none", registry |-> NetErr, start |-> 0, answer |-> NetErr,
     log |-> <<>>, outcome |-> "running", result |-> <<>>, error |-> NoError]

\* the registry document: entries is <<time.created, time.created_at>>;
\* shape "time" is a document whose `time` is an object or missing,
\* "time_other" one whose `time` is another truthy value, "other" a body that
\* is no object
RegistryTimes ==
    { <<Absent, Absent>>, <<NoneV, DtStr(1)>>, <<EmptyStr, Absent>>, <<BadStr, Absent>>,
      <<IntV(7), Absent>>, <<DtStr(1), Absent>>, <<DtStr(Today), DtStr(1)>>,
      <<DtStr(LastDate), DtStr(1)>> }

RegistryResponses(caller) ==
    IF caller # "direct" THEN {NetErr, Json("time", <<DtStr(1), Absent>>)}
    ELSE HttpFailures
            \cup {HttpStatus(404), Json("other", <<>>), Json("time_other", <<>>)}
            \cup {Json("time", t) : t \in RegistryTimes}

\* created = time.get("created") or time.get("created_at")
Created(resp) == PyOr(Get(resp.entries[1]), Get(resp.entries[2]))

\* NpmStart without the `created_date <= today` test
NpmStartAnyDate(resp) ==
    IF resp.k = "http" /\ resp.status = 200 /\ resp.json /\ resp.shape = "time"
    THEN IF Truthy(Created(resp)) /\ Created(resp).t \in {"datestr", "dtstr"}
         THEN IsoDate(Created(resp)) ELSE 0
    ELSE 0

\* start_date after lines 61-92, 0 for None
NpmStart(resp) ==
    IF resp.k = "http" /\ resp.status = 200 /\ resp.json /\ resp.shape = "time"
    THEN IF Truthy(Created(resp)) /\ Created(resp).t \in {"datestr", "dtstr"}
              /\ IsoDate(Created(resp)) <= Today
         THEN IsoDate(Created(resp)) ELSE 0
    ELSE 0

\* the downloads document: shape "downloads" is an object whose `downloads`
\* is the list `entries`, "no_downloads" an object without that key,
\* "downloads_other" an object whose `downloads` cannot be iterated,
\* "other" a body that is no object
NpmDay(d, c) == Item(TRUE, Absent, DateStr(d), Absent, IntV(c), Absent, Absent, Absent)

NpmItems ==
    { NpmDay(1, 5),
      Item(TRUE, DateStr(2), Absent, Absent, Absent, Absent, Absent, Absent),
      Item(TRUE, DateStr(1), DateStr(2), Absent, IntV(-1), Absent, Absent, Absent),
      NotADict }

NpmLists(caller) ==
    IF caller # "direct" THEN {<<NpmDay(1, 5)>>, <<NpmDay(1, 4), NpmDay(2, 6)>>}
    ELSE SeqsUpTo(NpmItems, MaxEntries)

\* the registry's answer for an unknown package: 404 with {"error": ...}
NotFound == Resp("http", 404, TRUE, "no_downloads", <<>>)

DownloadsResponses(caller) ==
    FailuresFor(caller)
        \cup (IF caller # "direct" THEN {}
              ELSE {NotFound, Json("other", <<>>), Json("no_downloads", <<>>),
                    Json("downloads_other", <<>>)})
        \cup {Json("downloads", e) : e \in NpmLists(caller)}

\* NpmFailure without r.raise_for_status()
NpmFailureAnyStatus(resp) ==
    CASE resp.k = "neterr" -> "RequestError"
      [] ~resp.json -> "JSONDecodeError"
      [] resp.shape = "other" -> "AttributeError"
      [] resp.shape = "downloads_other" -> "TypeError"
      [] resp.shape = "downloads"
           /\ \E i \in 1..Len(resp.entries) : ~resp.entries[i].isdict -> "AttributeError"
      [] OTHER -> "none"

\* the exception lines 107-123 raise on this answer, "none" when they raise none
NpmFailure(resp) ==
    CASE resp.k = "neterr" -> "RequestError"
      [] resp.status \notin 200..299 -> "HTTPStatusError"
      [] ~resp.json -> "JSONDecodeError"
      [] resp.shape = "other" -> "AttributeError"
      [] resp.shape = "downloads_other" -> "TypeError"
      [] resp.shape = "downloads"
           /\ \E i \in 1..Len(resp.entries) : ~resp.entries[i].isdict -> "AttributeError"
      [] OTHER -> "none"

\* NpmResult reading `date` before `day`
NpmResultDateFirst(resp) ==
    LET downloads == IF resp.shape = "downloads" THEN resp.entries ELSE <<>>
    IN  [i \in 1..Len(downloads) |->
            Item(TRUE, PyOr(Get(downloads[i].date), Get(downloads[i].day)), Absent, Absent,
                 GetOr(downloads[i].downloads, IntV(0)), Absent, Absent, Absent)]

\* lines 113 and 120-123: the result built from the payload
NpmResult(resp) ==
    LET downloads == IF resp.shape = "downloads" THEN resp.entries ELSE <<>>
    IN  [i \in 1..Len(downloads) |->
            Item(TRUE, PyOr(Get(downloads[i].day), Get(downloads[i].date)), Absent, Absent,
                 GetOr(downloads[i].downloads, IntV(0)), Absent, Absent, Absent)]

\* lines 47-54: the call is entered and the client opened
NpmEntered(caller, package, days) ==
    [NpmIdle EXCEPT !.pc = "registry", !.caller = caller, !.package = package,
                    !.name = RegistryName(package), !.days = days, !.client = "open"]

\* _fetch_npm_downloads called on its own
NpmCall ==
    /\ npm.pc = "idle"
    /\ pypi.pc = "idle"
    /\ \E package \in NpmPackages, days \in 1..MaxDays :
          npm' = NpmEntered("direct", package, days)
    /\ UNCHANGED <<norm, pypi, card, saas>>

\* lines 61-92: the registry metadata lookup
NpmRegistry ==
    /\ npm.pc = "registry"
    /\ \E resp \in RegistryResponses(npm.caller) :
          npm' = [npm EXCEPT !.pc = "downloads", !.registry = resp,
                             !.start = NpmStart(resp),
                             !.log = Append(npm.log,
                                        Request("registry", Quote(npm.name), 0, 0, 0, FALSE))]
    /\ UNCHANGED <<norm, pypi, card, saas>>

\* lines 94-97: the downloads URL
NpmDownloadsRequest(n) ==
    IF n.start # 0
    THEN Request("downloads_range", Quote(n.name), n.start, Today, 0, FALSE)
    ELSE Request("downloads_last", Quote(n.name), 0, 0, n.days, FALSE)

\* lines 94-148: the downloads request, and the result or the re-raised error
NpmDownloads ==
    /\ npm.pc = "downloads"
    /\ \E resp \in DownloadsResponses(npm.caller) :
          npm' = IF NpmFailure(resp) = "none"
                 THEN [npm EXCEPT !.pc = "done", !.answer = resp, !.client = "closed",
                                  !.log = Append(npm.log, NpmDownloadsRequest(npm)),
                                  !.outcome = "returned", !.result = NpmResult(resp)]
                 ELSE [npm EXCEPT !.pc = "done", !.answer = resp, !.client = "closed",
                                  !.log = Append(npm.log, NpmDownloadsRequest(npm)),
                                  !.outcome = "raised",
                                  !.error = [type |-> NpmFailure(resp),
                                             package |-> npm.name]]
    /\ UNCHANGED <<norm, pypi, card, saas>>

NpmStep == NpmRegistry \/ NpmDownloads

(***************************************************************************)
(* _synth_series(days, base, growth, noise).  random.randint(-noise, noise)*)
(* is one of three draws, the two ends and the middle of its range, the    *)
(* same on every day of a series; growth is in ten-thousandths (0.02 is    *)
(* 200), which gives int(value * growth) exactly for the values met here.  *)
(***************************************************************************)
\* days = int(params.get("days", 30))
DefaultDays == 30
\* the defaults of _synth_series and the base the fallback passes
SynthBase == 1000
SynthGrowth == 200
SynthNoise == 200

NoiseDraws == {-1, 0, 1}

\* int(value * growth), value being a non-negative integer
Drift(value, growth) == (value * growth) \div 10000

\* max(a, b)
Max(a, b) == IF a >= b THEN a ELSE b

\* SynthValue without the max(0, ...)
SynthValueUnclamped(value, growth, noise, draw) ==
    value + Drift(value, growth) + draw * noise

\* `value` after one more pass of the loop, lines 417-419
SynthValue(value, growth, noise, draw) ==
    Max(0, value + Drift(value, growth) + draw * noise)

\* the values n passes of the loop append, `value` being start before the
\* first; the passes are taken as two runs, the second starting from the
\* value the first ends with
RECURSIVE SynthRun(_, _, _, _, _)
SynthRun(n, start, growth, noise, draw) ==
    IF n <= 0 THEN <<>>
    ELSE IF n = 1 THEN <<SynthValue(start, growth, noise, draw)>>
    ELSE LET head == SynthRun(n \div 2, start, growth, noise, draw)
         IN  head \o SynthRun(n - (n \div 2), head[Len(head)],
                              growth, noise, draw)

\* a point of a per-package series: {"date": date, <package>: value}
SeriesPoint(date, value) == [date |-> date, value |-> value]

\* _synth_series as the card stores it, lines 469-470; range(days) is empty
\* for days below 1
SynthSeries(days, base, growth, noise, draw) ==
    LET values == SynthRun(days, base, growth, noise, draw)
    IN  [i \in 1..days |->
            SeriesPoint(DateStr(Today - (days - i)), IntV(values[i]))]

(***************************************************************************)
(* PackageDownloadsAreaCard.handler(ctx).                                  *)
(*   pc      off, idle, loop, await, merge, done                           *)
(*   param   the `days` entry of ctx["params"]                             *)
(*   k       the position of the package loop in Packages                  *)
(*   series  series_by_pkg; a package not yet reached has no entry         *)
(*   fell    the packages whose series is the synthetic fallback           *)
(*   kind    the card: downloads, commits or likes                         *)
(*   mock    USE_MOCK_DATA, line 17                                        *)
(*   requests  the requests the handler sent to the GitHub API             *)
(*   answers   what the GitHub API answered, one answer per package        *)
(***************************************************************************)
\* list(CONFIG["packages"].keys()), lines 25-41
Packages == <<"cereon-dashboard", "cereon-recharts", "cereon-sdk">>

\* CONFIG["packages"][pkg]["type"]
PackageType(pkg) == IF pkg = "cereon-sdk" THEN "pypi" ELSE "npm"

\* the `days` parameters a request comes with: none, a number, a numeric
\* string, a string that is no number
DaysParams ==
    {Absent, BadStr, IntV(-1), IntV(0)} \cup {NumStr(d) : d \in 1..MaxDays}

\* days = max(days, 365), lines 438, 503 and 601
MockMinDays == 365

\* the `days` parameters a request comes with when the data is mocked
MockDaysParams ==
    {Absent, BadStr, IntV(0), NumStr(1), IntV(MockMinDays), NumStr(MockMinDays + 1)}

CardIdle ==
    [pc |-> "off", kind |-> "downloads", mock |-> FALSE, param |-> Absent, days |-> 0,
     k |-> 0, series |-> <<>>, fell |-> {}, requests |-> <<>>, answers |-> <<>>,
     merged |-> <<>>,
     outcome |-> "running", error |-> NoError]

\* CardDays without `days = max(days, 365)`
CardDaysAsRequested(mock, param) == IntOf(GetOr(param, IntV(DefaultDays)))

\* `days` after lines 436-438 (501-503, 599-601)
CardDays(mock, param) ==
    IF mock THEN Max(IntOf(GetOr(param, IntV(DefaultDays))), MockMinDays)
    ELSE IntOf(GetOr(param, IntV(DefaultDays)))

\* lines 434-441 (500-504, 597-603): the parameters are read; int() raises on
\* what is no number
CardRequest ==
    /\ card.pc = "idle"
    /\ \E param \in (IF card.mock THEN MockDaysParams ELSE DaysParams) :
          card' = IF IntParses(GetOr(param, IntV(DefaultDays)))
                  THEN [card EXCEPT !.pc = "loop", !.param = param, !.k = 1,
                                    !.days = CardDays(card.mock, param)]
                  ELSE [card EXCEPT !.pc = "done", !.param = param,
                                    !.outcome = "raised",
                                    !.error = [type |-> "ValueError",
                                               package |-> "none"]]
    /\ UNCHANGED <<norm, pypi, npm, saas>>

\* lines 442-454: the loop reaches an npm package and calls its resolver
CardCallNpm ==
    /\ card.pc = "loop"
    /\ card.kind = "downloads" /\ ~card.mock
    /\ card.k <= Len(Packages)
    /\ PackageType(Packages[card.k]) = "npm"
    /\ card' = [card EXCEPT !.pc = "await"]
    /\ npm' = NpmEntered("card", Packages[card.k], card.days)
    /\ UNCHANGED <<norm, pypi, saas>>

\* lines 442-459: the loop reaches a PyPI package and calls its resolver
CardCallPypi ==
    /\ card.pc = "loop"
    /\ card.kind = "downloads" /\ ~card.mock
    /\ card.k <= Len(Packages)
    /\ PackageType(Packages[card.k]) = "pypi"
    /\ card' = [card EXCEPT !.pc = "await"]
    /\ \E env \in EnvsFor("card") :
          pypi' = PypiEntered("card", Packages[card.k], card.days, env)
    /\ UNCHANGED <<norm, npm, saas>>

\* lines 455-457 and 460-462: the resolver's series under the package's key
Keyed(result) ==
    [i \in 1..Len(result) |-> SeriesPoint(result[i].date, result[i].downloads)]

\* the synthetic series of lines 469-470
Fallback(days, draw) == SynthSeries(days, SynthBase, SynthGrowth, SynthNoise, draw)

\* series_by_pkg after the resolver of package k came back: its series, or
\* the synthetic one when it raised (lines 455-470)
Stored(c, call, draw) ==
    [c EXCEPT !.pc = "loop", !.k = c.k + 1,
              !.series = Append(c.series,
                            IF call.outcome = "raised" THEN Fallback(c.days, draw)
                            ELSE Keyed(call.result)),
              !.fell = IF call.outcome = "raised" THEN c.fell \cup {Packages[c.k]}
                       ELSE c.fell]

\* the npm resolver comes back to the loop
CardResumeNpm ==
    /\ card.pc = "await"
    /\ npm.pc = "done"
    /\ \E draw \in (IF npm.outcome = "raised" THEN NoiseDraws ELSE {0}) :
          card' = Stored(card, npm, draw)
    /\ npm' = NpmIdle
    /\ UNCHANGED <<norm, pypi, saas>>

\* the PyPI resolver comes back to the loop
CardResumePypi ==
    /\ card.pc = "await"
    /\ pypi.pc = "done"
    /\ \E draw \in (IF pypi.outcome = "raised" THEN NoiseDraws ELSE {0}) :
          card' = Stored(card, pypi, draw)
    /\ pypi' = PypiIdle
    /\ UNCHANGED <<norm, npm, saas>>

\* ValueAt without the `else 0`: a series that is too short contributes None
ValueAtUnpadded(s, idx) == IF idx <= Len(s) THEN s[idx].value ELSE NoneV

\* point[pkg] = s[idx].get(pkg) if idx < len(s) else 0, idx counting from 1
ValueAt(s, idx) == IF idx <= Len(s) THEN s[idx].value ELSE IntV(0)

\* lines 472-479: one point per point of the first package's series
Merged(series) ==
    [idx \in 1..Len(series[1]) |->
        [date |-> series[1][idx].date,
         values |-> [j \in 1..Len(series) |-> ValueAt(series[j], idx)]]]

\* lines 472-487: the series are merged and the card record returned
CardMerge ==
    /\ card.pc = "loop"
    /\ card.k > Len(Packages)
    /\ card' = [card EXCEPT !.pc = "done", !.merged = Merged(card.series),
                            !.outcome = "returned"]
    /\ UNCHANGED <<norm, pypi, npm, saas>>

CardStep ==
    \/ CardRequest
    \/ CardCallNpm
    \/ CardCallPypi
    \/ CardResumeNpm
    \/ CardResumePypi
    \/ CardMerge

(***************************************************************************)
(* reports/saas_metrics.py: the handlers of MrrOverviewCard,               *)
(* SaasUserGrowthCard and RevenueTrendCard.                                *)
(*   pc       off, idle, stream, done                                      *)
(*   handler  mrr_overview, saas_user_growth or revenue_trend              *)
(*   ctx      the request context: its `filters` and its `params`          *)
(*   series   the generated series after _apply_filters_to_series          *)
(*   i        the start of the next chunk, counted from 0                  *)
(*   yielded  the data of the records yielded so far                       *)
(*   record   the data of the number record returned                       *)
(***************************************************************************)
\* _generate_revenue_series(28), lines 100 and 191
RevenueDays == 28
\* mrr = 10000, line 19
StartMrr == 10000
\* chunk_size = 7, line 194
ChunkSize == 7
\* previousValue = dau - 120, lines 160 and 170
DauStep == 120

\* new = max(0, int((mrr * 0.01) * (1 + (i / days) * 0.5))), i counted from 0
NewMrr(mrr, i, days) == Max(0, (mrr * (2 * days + i)) \div (200 * days))

\* one row of the series: the day, mrr after the day, new, expansion
RevenueRow(mrr, i, days) ==
    LET new == NewMrr(mrr, i, days)
        expansion == (new * 3) \div 10
        churn == new \div 10
    IN  [date |-> DateStr(Today - (days - i - 1)),
         mrr |-> mrr + new + expansion - churn,
         new |-> new, expansion |-> expansion]

\* _generate_revenue_series(days): the rows of the passes i .. days - 1 of
\* the loop, mrr being its value before pass i
RECURSIVE RevenueFrom(_, _, _)
RevenueFrom(mrr, i, days) ==
    IF i >= days THEN <<>>
    ELSE LET row == RevenueRow(mrr, i, days)
         IN  <<row>> \o RevenueFrom(row.mrr, i + 1, days)

GenerateRevenueSeries(days) == RevenueFrom(StartMrr, 0, days)

\* a dict of ctx: given is its truthiness (FALSE for None, a missing key and
\* {}), the other fields are what it holds under the keys the handlers read
SaasDict(start_date, end_date, min_value, dau, wau, mau, activation, new_users) ==
    [given |-> TRUE, start_date |-> start_date, end_date |-> end_date,
     min_value |-> min_value, dau |-> dau, wau |-> wau, mau |-> mau,
     activation |-> activation, new_users |-> new_users]

NoDict ==
    [given |-> FALSE, start_date |-> Absent, end_date |-> Absent,
     min_value |-> Absent, dau |-> Absent, wau |-> Absent, mau |-> Absent,
     activation |-> Absent, new_users |-> Absent]

\* a dict with the three filters of _apply_filters_to_series
DateFilters(start_date, end_date, min_value) ==
    SaasDict(start_date, end_date, min_value, Absent, Absent, Absent, Absent, Absent)

\* a dict with the overrides of SaasUserGrowthCard
Overrides(dau, wau, new_users) ==
    SaasDict(Absent, Absent, Absent, dau, wau, Absent, Absent, new_users)

\* filters = ctx.get("filters") or ctx.get("params"), lines 98, 137 and 189
ChosenFilters(ctx) == IF ctx.filters.given THEN ctx.filters ELSE ctx.params

\* _parse_date(s): the day, or none
ParseDate(v) ==
    IF Truthy(Get(v)) /\ IsoParses(v) THEN IntV(IsoDate(v)) ELSE NoneV

\* float(v) does not raise
FloatParses(v) == v.t \in {"int", "numstr"}

\* lines 65-69: min_value, none when the key is missing or float() raises
MinValue(filters) ==
    IF filters.min_value.t # "absent" /\ FloatParses(filters.min_value)
    THEN IntV(filters.min_value.n) ELSE NoneV

\* lines 59-78: the row passes the filters
RowKept(row, filters) ==
    LET start == ParseDate(filters.start_date)
        end == ParseDate(filters.end_date)
        row_date == ParseDate(row.date)
        min_value == MinValue(filters)
    IN  /\ ~(start.t = "int" /\ row_date.t = "int" /\ row_date.n < start.n)
        /\ ~(end.t = "int" /\ row_date.t = "int" /\ row_date.n > end.n)
        /\ ~(min_value.t = "int" /\ row.mrr < min_value.n)

\* _apply_filters_to_series(series, filters)
ApplyFilters(series, filters) ==
    IF ~filters.given THEN series
    ELSE SelectSeq(series, LAMBDA row : RowKept(row, filters))

\* the contexts the revenue handlers are called with
RevenueCtxs ==
    {[filters |-> NoDict, params |-> NoDict],
     [filters |-> NoDict, params |-> DateFilters(DateStr(Today - 9), Absent, Absent)]}
        \cup {[filters |-> DateFilters(s, e, m), params |-> NoDict] :
                 s \in {Absent, BadStr, DateStr(Today - 9), DateStr(Today + 1)},
                 e \in {Absent, DateStr(Today - 20), DateStr(Today)},
                 m \in {Absent, BadStr, IntV(0), NumStr(15000), IntV(20000)}}

\* the contexts the user growth handler is called with
GrowthCtxs ==
    {[filters |-> NoDict, params |-> NoDict],
     [filters |-> NoDict, params |-> Overrides(IntV(5000), Absent, Absent)]}
        \cup {[filters |-> Overrides(d, w, n), params |-> NoDict] :
                 d \in {Absent, BadStr, IntV(0), IntV(DauStep), NumStr(DauStep + 1),
                        IntV(5000)},
                 w \in {Absent, BadStr, IntV(20000)},
                 n \in {Absent, NumStr(400)}}

SaasIdle ==
    [pc |-> "off", handler |-> "none", ctx |-> [filters |-> NoDict, params |-> NoDict],
     series |-> <<>>, i |-> 0, yielded |-> <<>>,
     record |-> [value |-> NoneV, previousValue |-> NoneV, trend |-> NoneV,
                 as_of |-> NoneV, meta |-> <<>>],
     outcome |-> "running", error |-> NoError]

\* round(num / den * 100, 2) in hundredths of a percent, den not 0; a half
\* goes to the even neighbour
RoundedPercent(num, den) ==
    LET n == IF den < 0 THEN -num * 10000 ELSE num * 10000
        d == IF den < 0 THEN -den ELSE den
        q == n \div d
        r == n - q * d
    IN  IF 2 * r < d THEN q
        ELSE IF 2 * r > d THEN q + 1
        ELSE IF q % 2 = 0 THEN q ELSE q + 1

\* MrrOverviewCard.handler(ctx), lines 94-120: series[-1]["date"] of line 115
\* raises IndexError on an empty series
SaasMrr ==
    /\ saas.pc = "idle"
    /\ saas.handler = "mrr_overview"
    /\ \E ctx \in RevenueCtxs :
          LET series == ApplyFilters(GenerateRevenueSeries(RevenueDays),
                                     ChosenFilters(ctx))
              n == Len(series)
              latest == IF n > 0 THEN series[n].mrr ELSE 0
              prev == IF n > 1 THEN IntV(series[n - 1].mrr) ELSE NoneV
              delta_pct == IF Truthy(prev)
                           THEN RoundedPercent(latest - prev.n, prev.n) ELSE 0
          IN  saas' = IF n = 0
                      THEN [saas EXCEPT !.pc = "done", !.ctx = ctx, !.series = series,
                                        !.outcome = "raised",
                                        !.error = [type |-> "IndexError",
                                                   package |-> "none"]]
                      ELSE [saas EXCEPT !.pc = "done", !.ctx = ctx, !.series = series,
                                        !.outcome = "returned",
                                        !.record = [value |-> IntV(latest),
                                                    previousValue |-> prev,
                                                    trend |-> IntV(delta_pct),
                                                    as_of |-> series[n].date,
                                                    meta |-> <<>>]]
    /\ UNCHANGED <<norm, pypi, npm, card>>

\* the five overrides in the order lines 146-150 read them, with the values
\* of lines 139-143 (activation in hundredths)
OverrideDefaults == <<4200, 15000, 48000, 27, 350>>

OverrideValues(filters) ==
    <<filters.dau, filters.wau, filters.mau, filters.activation, filters.new_users>>

\* lines 144-152: an override is taken when its key is there; the first one
\* int() or float() rejects ends the block and the later ones keep their
\* synthetic values
RECURSIVE Overridden(_, _)
Overridden(values, defaults) ==
    IF values = <<>> THEN <<>>
    ELSE IF Head(values).t = "absent"
         THEN <<Head(defaults)>> \o Overridden(Tail(values), Tail(defaults))
         ELSE IF IntParses(Head(values))
              THEN <<IntOf(Head(values))>> \o Overridden(Tail(values), Tail(defaults))
              ELSE defaults

UserMetrics(filters) ==
    IF filters.given THEN Overridden(OverrideValues(filters), OverrideDefaults)
    ELSE OverrideDefaults

\* SaasUserGrowthCard.handler(ctx), lines 132-173; 120 / (dau - 120) of line
\* 170 raises ZeroDivisionError for dau = 120
SaasUserGrowth ==
    /\ saas.pc = "idle"
    /\ saas.handler = "saas_user_growth"
    /\ \E ctx \in GrowthCtxs :
          LET metrics == UserMetrics(ChosenFilters(ctx))
              dau == metrics[1]
          IN  saas' = IF dau - DauStep = 0
                      THEN [saas EXCEPT !.pc = "done", !.ctx = ctx,
                                        !.outcome = "raised",
                                        !.error = [type |-> "ZeroDivisionError",
                                                   package |-> "none"]]
                      ELSE [saas EXCEPT !.pc = "done", !.ctx = ctx,
                                        !.outcome = "returned",
                                        !.record = [value |-> IntV(dau),
                                                    previousValue |-> IntV(dau - DauStep),
                                                    trend |-> IntV(RoundedPercent(
                                                                 DauStep, dau - DauStep)),
                                                    as_of |-> NoneV,
                                                    meta |-> metrics]]
    /\ UNCHANGED <<norm, pypi, npm, card>>

\* RevenueTrendCard.handler(ctx) up to its loop, lines 185-194
SaasRevenueStart ==
    /\ saas.pc = "idle"
    /\ saas.handler = "revenue_trend"
    /\ \E ctx \in RevenueCtxs :
          saas' = [saas EXCEPT !.pc = "stream", !.ctx = ctx, !.i = 0,
                               !.series = ApplyFilters(
                                              GenerateRevenueSeries(RevenueDays),
                                              ChosenFilters(ctx))]
    /\ UNCHANGED <<norm, pypi, npm, card>>

\* Min(a, b)
Min(a, b) == IF a <= b THEN a ELSE b

\* ChunkAt starting one row early
ChunkAtOverlapping(series, i) ==
    SubSeq(series, Max(i, 1), Min(i + ChunkSize, Len(series)))

\* series[i : i + chunk_size], i counted from 0
ChunkAt(series, i) == SubSeq(series, i + 1, Min(i + ChunkSize, Len(series)))

\* lines 196-205: one pass of `for i in range(0, len(series), chunk_size)`,
\* which yields one record
SaasRevenueYield ==
    /\ saas.pc = "stream"
    /\ saas.i < Len(saas.series)
    /\ saas' = [saas EXCEPT !.yielded = Append(saas.yielded,
                                               ChunkAt(saas.series, saas.i)),
                            !.i = saas.i + ChunkSize]
    /\ UNCHANGED <<norm, pypi, npm, card>>

\* the range is exhausted and the generator ends
SaasRevenueEnd ==
    /\ saas.pc = "stream"
    /\ saas.i >= Len(saas.series)
    /\ saas' = [saas EXCEPT !.pc = "done", !.outcome = "returned"]
    /\ UNCHANGED <<norm, pypi, npm, card>>

(***************************************************************************)
(* _normalize_entries run on its own, once and then on its own output.     *)
(***************************************************************************)
NormIdle == [phase |-> "off", input |-> <<>>, once |-> <<>>, twice |-> <<>>]

InitNorm ==
    /\ saas = SaasIdle
    /\ norm \in {[phase |-> "input", input |-> e, once |-> <<>>, twice |-> <<>>] :
                    e \in SeqsUpTo(ItemPool, MaxLen)}
    /\ pypi = PypiIdle
    /\ npm = NpmIdle
    /\ card = CardIdle

NormalizeOnce ==
    /\ norm.phase = "input"
    /\ norm' = [norm EXCEPT !.phase = "once", !.once = NormalizeEntries(norm.input)]
    /\ UNCHANGED <<pypi, npm, card, saas>>

NormalizeAgain ==
    /\ norm.phase = "once"
    /\ norm' = [norm EXCEPT !.phase = "twice", !.twice = NormalizeEntries(norm.once)]
    /\ UNCHANGED <<pypi, npm, card, saas>>

NextNorm == NormalizeOnce \/ NormalizeAgain

SpecNorm == InitNorm /\ [][NextNorm]_vars

\* C8: normalizing an already-normalized list gives the same list
C8_Idempotent == norm.phase = "twice" => norm.twice = norm.once

\* the entry is an object with an ISO date under date, day or key and a count
\* that converts to an integer under downloads, count, value or downloads_count
Usable(item) ==
    /\ item.isdict
    /\ \E d \in {item.date, item.day, item.key} : IsoParses(d)
    /\ \E c \in {item.downloads, item.count, item.value, item.downloads_count} :
          IntParses(c)

\* C11: the output has one point per usable input entry and none for the
\* others, every count an integer, the points ascending by date
C11_OnePointPerUsableEntry ==
    norm.phase \in {"once", "twice"} =>
        /\ Len(norm.once)
              = Cardinality({i \in 1..Len(norm.input) : Usable(norm.input[i])})
        /\ \A i \in 1..Len(norm.once) : norm.once[i].downloads.t = "int"
        /\ \A i, j \in 1..Len(norm.once) :
              i < j => norm.once[i].date.n <= norm.once[j].date.n

\* the value of the first key of `aliases` that the entry has, None when it
\* has none of them
FirstPresent(aliases) ==
    IF \E k \in 1..Len(aliases) : aliases[k].t # "absent"
    THEN aliases[CHOOSE k \in 1..Len(aliases) :
                    /\ aliases[k].t # "absent"
                    /\ \A j \in 1..(k - 1) : aliases[j].t = "absent"]
    ELSE NoneV

\* C21: the date of an entry is the value of the first key it has among
\* date, day, key, and its count the value of the first key it has among
\* downloads, count, value, downloads_count, a count of 0 included: an entry
\* whose first date is an ISO date and whose first count converts to an
\* integer gives the point of that date and that count
C21_FirstPresentAlias ==
    (norm.phase \in {"once", "twice"} /\ Len(norm.input) = 1 /\ norm.input[1].isdict) =>
        LET item == norm.input[1]
            date == FirstPresent(<<item.date, item.day, item.key>>)
            count == FirstPresent(<<item.downloads, item.count, item.value,
                                    item.downloads_count>>)
        IN  (IsoParses(date) /\ IntParses(count))
                => norm.once = <<Point(IsoDate(date), IntOf(count))>>

(***************************************************************************)
(* One call of one resolver, made on its own.                              *)
(***************************************************************************)
InitResolve ==
    /\ saas = SaasIdle
    /\ norm = NormIdle
    /\ pypi = [PypiIdle EXCEPT !.pc = "idle"]
    /\ npm = [NpmIdle EXCEPT !.pc = "idle"]
    /\ card = CardIdle

NextResolve == PypiCall \/ PypiStep \/ NpmCall \/ NpmStep

SpecResolve == InitResolve /\ [][NextResolve]_vars

(***************************************************************************)
(* Properties of a resolver call.                                          *)
(***************************************************************************)
\* C1: a series returned by either resolver has at most `days` points
C1_AtMostWindowDays ==
    /\ pypi.outcome = "returned" => Len(pypi.result) <= pypi.days
    /\ npm.outcome = "returned" => Len(npm.result) <= npm.days

\* C2: no returned point has a negative download count
C2_NeverNegative ==
    /\ pypi.outcome = "returned" =>
          \A i \in 1..Len(pypi.result) : pypi.result[i].downloads.n >= 0
    /\ npm.outcome = "returned" =>
          \A i \in 1..Len(npm.result) :
              npm.result[i].downloads.t = "int" => npm.result[i].downloads.n >= 0

\* C3: a series returned by _fetch_pypi_downloads is strictly ascending by
\* date, no two points sharing a date
C3_StrictlyAscending ==
    pypi.outcome = "returned" =>
        \A i, j \in 1..Len(pypi.result) :
            i < j => pypi.result[i].date.n < pypi.result[j].date.n

\* the candidates in the order the claim gives; the two hosts of the pepy
\* project summary follow each other
ChainOrder ==
    <<"range_colon", "range_slash", "overall", "recent", "pepy_range",
      "pepy_project", "pepy_api_project", "bigquery">>

Rank(cand) == CHOOSE k \in 1..Len(ChainOrder) : ChainOrder[k] = cand

\* the candidate requests of the call so far (the log without the metadata lookup)
Tried == SubSeq(pypi.log, 2, Len(pypi.log))

\* C4: the candidates are requested in the fixed order, and once a candidate
\* has yielded a non-empty normalized series that series is returned and no
\* further request is made
C4_OrderedShortCircuit ==
    /\ [](\A i, j \in 1..Len(Tried) : i < j => Rank(Tried[i].cand) < Rank(Tried[j].cand))
    /\ [](pypi.last = "series" <=> pypi.outcome = "returned")
    /\ [][pypi.last = "series" => pypi'.log = pypi.log]_vars

\* the "recent" endpoint answered after the range and overall endpoints gave
\* nothing, with a pepy key configured
C4_Witness ==
    /\ pypi.outcome = "returned"
    /\ Len(Tried) = 4
    /\ Tried[4].cand = "recent"
    /\ HasPepyKey(pypi.env)

\* the names of the elements of a sequence of candidates
Names(cands) == {cands[k] : k \in 1..Len(cands)}

\* the candidates that apply to this call: the pypistats endpoints, the pepy
\* endpoints when a key is configured, the warehouse when its credentials
\* and its client library are there
Applicable ==
    Names(PypistatsCandidates(pypi.start))
        \cup (IF HasPepyKey(pypi.env) THEN Names(PepyCandidates(pypi.start)) ELSE {})
        \cup (IF HasBqCredentials(pypi.env) /\ pypi.env.bq_lib THEN {"bigquery"} ELSE {})

\* C5: the call raises exactly when every applicable candidate was tried and
\* none yielded a series, and what it raises is the RuntimeError naming the
\* package; nothing else is ever raised
C5_OnlyExhaustionRaises ==
    /\ pypi.outcome = "running" => pypi.error = NoError
    /\ pypi.outcome = "returned" => pypi.error = NoError
    /\ pypi.outcome = "raised" =>
          pypi.error = [type |-> "RuntimeError", package |-> pypi.package]
    /\ pypi.pc = "done" =>
          /\ pypi.outcome \in {"returned", "raised"}
          /\ pypi.outcome = "raised" <=>
                (Names([k \in 1..Len(Tried) |-> Tried[k].cand]) = Applicable
                    /\ pypi.last # "series")

\* the call raised although the warehouse credentials were set: the client
\* library was missing, or every candidate down to the warehouse gave nothing
C5_Witness ==
    /\ pypi.outcome = "raised"
    /\ HasBqCredentials(pypi.env)
    /\ Len(Tried) >= 2

\* C6: a candidate that fails (exception, status other than 200, nothing
\* usable in the body) leaves the call running with no error, and the chain
\* stands at the next candidate of the list, or past the list at its end
C6_FailureAdvances ==
    /\ [](pypi.pc \in {"stats", "pepy"} => pypi.i \in 1..Len(pypi.cands))
    /\ [][(pypi.pc \in {"stats", "pepy"} /\ pypi.flight # {} /\ pypi'.flight = {})
            => /\ pypi'.log[Len(pypi'.log)].cand = pypi.cands[pypi.i]
               /\ pypi'.last \in {"failed", "status", "empty"}
                    => /\ pypi'.outcome = "running"
                       /\ pypi'.error = NoError
                       /\ pypi'.client = "open"
                       /\ IF pypi.i < Len(pypi.cands)
                          THEN pypi'.pc = pypi.pc /\ pypi'.i = pypi.i + 1
                          ELSE pypi'.pc \in {"pepy_setup", "bq"}]_vars

\* the first pepy candidate failed and the chain stands at the second
C6_Witness ==
    /\ pypi.pc = "pepy"
    /\ pypi.i = 2
    /\ pypi.last = "failed"
    /\ pypi.outcome = "running"

\* the registry lookup found a creation date
CreationFound(r) ==
    /\ r.k = "http" /\ r.status = 200 /\ r.json /\ r.shape = "time"
    /\ Created(r).t \in {"datestr", "dtstr"}

\* C9: with a creation date not after today the downloads request is the
\* range [creation date, today] for the registry name; otherwise it is
\* last-N with N = days; a failed lookup fails nothing
C9_RangeFromCreation ==
    npm.pc = "done" =>
        /\ Len(npm.log) = 2
        /\ npm.log[2] =
              IF CreationFound(npm.registry) /\ Created(npm.registry).n <= Today
              THEN Request("downloads_range", Quote(RegistryName(npm.package)),
                           Created(npm.registry).n, Today, 0, FALSE)
              ELSE Request("downloads_last", Quote(RegistryName(npm.package)),
                           0, 0, npm.days, FALSE)
        /\ (npm.answer.status = 200 /\ npm.answer.json /\ npm.answer.shape = "downloads"
              /\ \A i \in 1..Len(npm.answer.entries) : npm.answer.entries[i].isdict)
            => npm.outcome = "returned"

\* the package was created on day 1 and the range from day 1 to today was
\* requested under the scoped name
C9_Witness ==
    /\ npm.pc = "done"
    /\ npm.package = "cereon-dashboard"
    /\ npm.registry.shape = "time"
    /\ Created(npm.registry) = DtStr(1)
    /\ npm.log[2] = Request("downloads_range", "%40cereon%2Fdashboard", 1, Today, 0, FALSE)

\* the downloads body is not the object with a list of records it should be
Malformed(a) ==
    \/ ~a.json
    \/ a.shape # "downloads"
    \/ \E i \in 1..Len(a.entries) : ~a.entries[i].isdict

C12_CappedToLatest ==
    pypi.outcome = "returned" =>
        LET n == Len(pypi.normalized)
            kept == Len(pypi.result)
        IN  /\ n > 0
            /\ kept = (IF n > pypi.days THEN pypi.days ELSE n)
            /\ pypi.result = SubSeq(pypi.normalized, n - kept + 1, n)
            /\ \A i \in 1..(n - kept), j \in 1..kept :
                  pypi.normalized[i].date.n <= pypi.result[j].date.n

\* a candidate gave two days for a window of one and the later day was returned
C12_Witness ==
    /\ pypi.outcome = "returned"
    /\ pypi.days = 1
    /\ Len(pypi.normalized) = 2
    /\ pypi.normalized[1].date.n < pypi.normalized[2].date.n
    /\ pypi.result = <<pypi.normalized[2]>>

\* the days of the window of a call: the last `days` days up to today
Window(days) == (Today - days + 1)..Today

\* the series covers the window day by day: `days` points, one for each day
\* of the window; when its earliest date lies inside the window the provider
\* may retain less than the window, and the series only has to fit
Covers(series, days) ==
    LET dates == {series[i].date.n : i \in 1..Len(series)}
    IN  IF \E d \in dates : \A e \in dates : d <= e /\ d > Today - days + 1
        THEN Len(series) <= days
        ELSE /\ Len(series) = days
             /\ \A d \in Window(days) : \E i \in 1..Len(series) : series[i].date.n = d

\* C13: a returned series has exactly `days` points, one per day of the
\* window, unless the provider retains less than the window
C13_ExactlyWindowDays ==
    /\ pypi.outcome = "returned" => Covers(pypi.result, pypi.days)
    /\ npm.outcome = "returned" => Covers(npm.result, npm.days)

\* the endpoints requested by the call so far
Requested == {pypi.log[k].cand : k \in 1..Len(pypi.log)}

\* C14: without an API key no pepy endpoint is ever requested; without the
\* warehouse credentials, or without its client library, no warehouse query is
\* ever run; and the only error of a call is the RuntimeError of total failure,
\* raised after the pypistats endpoints were all asked in vain
C14_AbsentDependencySkipped ==
    /\ ~HasPepyKey(pypi.env) =>
          /\ Requested \cap Names(PepyCandidates(1)) = {}
          /\ \A k \in 1..Len(pypi.log) : ~pypi.log[k].auth
    /\ ~(HasBqCredentials(pypi.env) /\ pypi.env.bq_lib) => "bigquery" \notin Requested
    /\ pypi.error.type \in {"none", "RuntimeError"}
    /\ pypi.outcome = "raised" =>
          /\ Names(PypistatsCandidates(pypi.start)) \subseteq Requested
          /\ pypi.last # "series"
          /\ pypi.result = <<>>

\* a call without an API key, with warehouse credentials but no client
\* library, ended in the total failure after the pypistats endpoints alone
C14_Witness ==
    /\ pypi.pc = "done"
    /\ ~HasPepyKey(pypi.env)
    /\ HasBqCredentials(pypi.env)
    /\ ~pypi.env.bq_lib
    /\ pypi.outcome = "raised"
    /\ Requested = {"pypi_json"} \cup Names(PypistatsCandidates(pypi.start))

\* the httpx client of a call is open exactly while the call runs
ClientScoped(call) ==
    /\ call.pc = "idle" => call.client = "none"
    /\ call.pc \notin {"idle", "done"} => call.client = "open"
    /\ call.pc = "done" => call.client = "closed"

\* the client goes from none to open to closed, and every request is issued
\* through the open client
ClientOnce(call, call2) ==
    /\ call2.client # call.client =>
          <<call.client, call2.client>> \in {<<"none", "open">>, <<"open", "closed">>}
    /\ Len(call2.log) > Len(call.log) => call.client = "open"

\* C15: a call of either resolver opens one HTTP client and no other, and
\* whether it returns a series or raises, with or without failed candidates,
\* nothing it opened is still open when the call completes
C15_ClientReleased ==
    /\ [](ClientScoped(pypi) /\ ClientScoped(npm))
    /\ [](pypi.warehouse = "none")
    /\ [][ClientOnce(pypi, pypi') /\ ClientOnce(npm, npm')]_vars

\* C16: at most one request of a call is in flight at any time; a request is
\* issued only when none is in flight, one at a time; and no endpoint is
\* requested twice, so that a failed candidate is never retried
C16_OneAtATime ==
    /\ [](Cardinality(pypi.flight) <= 1)
    /\ [](\A i, j \in 1..Len(pypi.log) : i # j => pypi.log[i].cand # pypi.log[j].cand)
    /\ [][Len(pypi'.log) > Len(pypi.log)
            => /\ pypi.flight = {}
               /\ pypi'.log = Append(pypi.log, pypi'.log[Len(pypi'.log)])
               /\ pypi'.flight = {pypi'.log[Len(pypi'.log)]}]_vars

\* the "overall" endpoint timed out and the "recent" endpoint is in flight,
\* alone
C16_Witness ==
    /\ pypi.pc = "stats"
    /\ pypi.last = "failed"
    /\ Len(Tried) = 2
    /\ Tried[1].cand = "overall"
    /\ pypi.flight = {Tried[2]}
    /\ Tried[2].cand = "recent"

\* the metadata lookup failed: no answer, a status that raise_for_status
\* rejects, or a body that is no JSON
MetaFailed(m) == m.k = "neterr" \/ m.status \notin 200..299 \/ ~m.json

\* C17: after a failed metadata lookup, or metadata without release files, the
\* call goes on with no start date: no error, the first candidate requested
\* is the "overall" endpoint, and no date-bounded endpoint (the two pypistats
\* ranges, the pepy range) is ever requested
C17_MetadataFailureNonFatal ==
    (pypi.pc \notin {"off", "idle", "meta"}
        /\ (MetaFailed(pypi.meta) \/ pypi.meta.entries = <<>>))
    => /\ pypi.start = 0
       /\ pypi.pc = "stats" /\ pypi.i = 1 => pypi.outcome = "running" /\ pypi.error = NoError
       /\ Len(Tried) >= 1 => Tried[1].cand = "overall"
       /\ Requested \cap {"range_colon", "range_slash", "pepy_range"} = {}
       /\ \A k \in 1..Len(pypi.log) : pypi.log[k].start = 0 \/ pypi.log[k].cand = "bigquery"
       /\ pypi.outcome = "raised" =>
             /\ pypi.error.type = "RuntimeError"
             /\ {"overall", "recent"} \subseteq Requested

\* the metadata lookup was answered 404 and the "overall" endpoint, asked
\* first, gave the series that was returned
C17_Witness ==
    /\ pypi.outcome = "returned"
    /\ pypi.meta = HttpStatus(404)
    /\ Len(Tried) = 1
    /\ Tried[1].cand = "overall"
    /\ pypi.result # <<>>

\* the upload dates of the release files that are not after today
PastUploads(files) ==
    {d \in 1..Today :
        \E k \in 1..Len(files) :
            IsoParses(UploadTime(files[k])) /\ IsoDate(UploadTime(files[k])) = d}

\* C18: the derived start date is the earliest of the upload dates that are
\* not after today, and there is none when no file has such a date
C18_EarliestPastUpload ==
    (pypi.pc \notin {"off", "idle", "meta"} /\ ~MetaFailed(pypi.meta)) =>
        LET past == PastUploads(pypi.meta.entries)
        IN  IF past = {} THEN pypi.start = 0
            ELSE pypi.start \in past /\ \A d \in past : pypi.start <= d

\* a file uploaded on day 1 and one dated after today: day 1 is derived
C18_Witness ==
    /\ pypi.pc = "stats"
    /\ pypi.start = 1
    /\ \E k \in 1..Len(pypi.meta.entries) :
          UploadTime(pypi.meta.entries[k]) = DtStr(LastDate)

\* C20: on a successful downloads response the result has one point per
\* upstream record, in upstream order; the point's date is the record's `day`,
\* else its `date`, and its downloads the record's `downloads`, 0 when the
\* record has none
C20_OnePointPerRecord ==
    (npm.outcome = "returned" /\ npm.answer.shape = "downloads") =>
        /\ Len(npm.result) = Len(npm.answer.entries)
        /\ \A i \in 1..Len(npm.result) :
              LET record == npm.answer.entries[i]
                  point == npm.result[i]
              IN  /\ point.date = (IF record.day.t \in {"datestr", "dtstr"} THEN record.day
                                   ELSE IF record.date.t = "absent" THEN NoneV
                                   ELSE record.date)
                  /\ point.downloads = (IF record.downloads.t = "absent" THEN IntV(0)
                                        ELSE record.downloads)

\* two records came back, the first without `downloads`, the second with
\* both `day` and `date`: two points, a zero count, the `day` of the second
C20_Witness ==
    /\ npm.outcome = "returned"
    /\ Len(npm.result) = 2
    /\ npm.answer.entries[1].downloads = Absent
    /\ npm.result[1].downloads = IntV(0)
    /\ npm.answer.entries[2].day = DateStr(2)
    /\ npm.answer.entries[2].date = DateStr(1)
    /\ npm.result[2].date = DateStr(2)

(***************************************************************************)
(* Two resolutions run as tasks of one event loop: one for a PyPI package  *)
(* and one for an npm package.  A task takes its steps on the loop's       *)
(* thread, so the npm task can only step while nothing blocks that thread. *)
(* The loop runs every task that is ready (weak fairness); HTTP requests   *)
(* are answered or time out, a warehouse query may take for ever.          *)
(***************************************************************************)
\* the event loop's thread is not held by a blocking call
LoopFree == pypi.thread # "loop"

InitConcurrent ==
    /\ saas = SaasIdle
    /\ norm = NormIdle
    /\ pypi = [PypiIdle EXCEPT !.pc = "idle"]
    /\ npm = [NpmIdle EXCEPT !.pc = "idle"]
    /\ card = CardIdle

\* a task is made for _fetch_pypi_downloads
PypiSpawn ==
    /\ pypi.pc = "idle"
    /\ \E days \in 1..MaxDays, env \in EnvsFor("task") :
          pypi' = PypiEntered("task", "cereon-sdk", days, env)
    /\ UNCHANGED <<norm, npm, card, saas>>

\* a task is made for _fetch_npm_downloads
NpmSpawn ==
    /\ npm.pc = "idle"
    /\ LoopFree
    /\ \E days \in 1..MaxDays : npm' = NpmEntered("task", "cereon-dashboard", days)
    /\ UNCHANGED <<norm, pypi, card, saas>>

\* a step of the npm task, taken on the event loop
NpmLoopStep == LoopFree /\ NpmStep

NextConcurrent == PypiSpawn \/ NpmSpawn \/ PypiStep \/ NpmLoopStep

SpecConcurrent ==
    InitConcurrent /\ [][NextConcurrent]_vars /\ WF_vars(NpmLoopStep)

\* C19: the warehouse query runs off the event loop: while the PyPI call waits
\* for it the loop is free, so that a concurrent npm resolution goes on and
\* completes however long the query takes
C19_QueryOffTheLoop ==
    /\ [](pypi.pc = "bq_wait" => pypi.thread = "worker" /\ LoopFree)
    /\ (pypi.pc = "bq_wait" /\ npm.pc \in {"registry", "downloads"}) ~> (npm.pc = "done")

\* the npm resolution has returned its series while the PyPI call still
\* waits for the warehouse
C19_Witness ==
    /\ pypi.pc = "bq_wait"
    /\ pypi.thread = "worker"
    /\ npm.pc = "done"
    /\ npm.outcome = "returned"

(***************************************************************************)
(* One request to the downloads card, live data.                           *)
(***************************************************************************)
InitCard ==
    /\ saas = SaasIdle
    /\ norm = NormIdle
    /\ pypi = PypiIdle
    /\ npm = NpmIdle
    /\ card = [CardIdle EXCEPT !.pc = "idle"]

NextCard == CardStep \/ NpmStep \/ PypiStep

SpecCard == InitCard /\ [][NextCard]_vars

(***************************************************************************)
(* Properties of the downloads card.                                       *)
(***************************************************************************)
\* the resolver the package loop is waiting for
Awaited == IF PackageType(Packages[card.k]) = "npm" THEN npm ELSE pypi

\* every stored series that is a synthetic fallback has n points, none negative
FallbacksHave(n) ==
    \A k \in 1..Len(card.series) :
        Packages[k] \in card.fell =>
            /\ Len(card.series[k]) = n
            /\ \A i \in 1..Len(card.series[k]) : card.series[k][i].value.n >= 0

DaysConverts == IntParses(GetOr(card.param, IntV(DefaultDays)))

C22_MergePadsWithZero ==
    (card.pc = "done" /\ card.outcome = "returned") =>
        /\ Len(card.series) = Len(Packages)
        /\ Len(card.merged) = Len(card.series[1])
        /\ \A idx \in 1..Len(card.merged) :
              /\ card.merged[idx].date = card.series[1][idx].date
              /\ DOMAIN card.merged[idx].values = 1..Len(Packages)
              /\ \A j \in 1..Len(Packages) :
                    card.merged[idx].values[j] =
                        (IF Len(card.series[j]) >= idx THEN card.series[j][idx].value
                         ELSE IntV(0))

\* the first package has two points and the second one: the second point of
\* the output holds 0 for the second package
C22_Witness ==
    /\ card.pc = "done"
    /\ card.outcome = "returned"
    /\ Len(card.series[1]) = 2
    /\ Len(card.series[2]) = 1
    /\ Len(card.merged) = 2
    /\ card.merged[2].values[2] = IntV(0)

\* the count the series s has for the date: that of its point with this date,
\* 0 when it has no such point
CountOn(s, date) ==
    IF \E i \in 1..Len(s) : s[i].date = date
    THEN s[CHOOSE i \in 1..Len(s) : s[i].date = date].value
    ELSE IntV(0)

\* C26: in the merged output the value under a package's key in the point
\* dated D is that package's count for D, or 0 when it has no point for D
C26_MergedByDate ==
    card.pc = "done" /\ card.outcome = "returned" =>
        \A idx \in 1..Len(card.merged) :
            \A j \in 1..Len(card.series) :
                card.merged[idx].values[j] =
                    CountOn(card.series[j], card.merged[idx].date)

(***************************************************************************)
(* The three cards of the package report, with live or mocked data.        *)
(***************************************************************************)
\* `base` of the mocked series, lines 446, 555 and 610-616
MockBase(kind, pkg) ==
    CASE kind = "downloads" -> (IF PackageType(pkg) = "npm" THEN 2000 ELSE 500)
      [] kind = "commits" -> 3
      [] kind = "likes" -> (CASE pkg = "cereon-dashboard" -> 300
                              [] pkg = "cereon-recharts" -> 150
                              [] pkg = "cereon-sdk" -> 80
                              [] OTHER -> 100)

\* `growth` of the mocked series in ten-thousandths, lines 447, 556 and 618
MockGrowth(kind, pkg) ==
    CASE kind = "downloads" -> (IF PackageType(pkg) = "npm" THEN 100 ELSE 50)
      [] kind = "commits" -> 100
      [] kind = "likes" -> (IF PackageType(pkg) = "pypi" THEN 5 ELSE 10)

\* `noise` of the mocked series, lines 448, 556 and 619
MockNoise(kind, pkg) ==
    CASE kind = "downloads" -> (MockBase(kind, pkg) * 2) \div 10
      [] kind = "commits" -> 3
      [] kind = "likes" -> (MockBase(kind, pkg) * 5) \div 100

\* lines 444-449, 553-559 and 615-621: the mocked series of the package the
\* loop is at
CardMock ==
    /\ card.pc = "loop"
    /\ card.mock
    /\ card.k <= Len(Packages)
    /\ \E draw \in NoiseDraws :
          LET pkg == Packages[card.k]
          IN  card' = [card EXCEPT
                         !.k = card.k + 1,
                         !.series = Append(card.series,
                                       SynthSeries(card.days, MockBase(card.kind, pkg),
                                                   MockGrowth(card.kind, pkg),
                                                   MockNoise(card.kind, pkg), draw))]
    /\ UNCHANGED <<norm, pypi, npm, saas>>

(***************************************************************************)
(* PackageCommitsLineCard.handler and PackageLikesBarCard.handler with     *)
(* live data.  Every repo of CONFIG is on github.com, so each package      *)
(* costs one request to the GitHub API.  A commit is its                   *)
(* commit.author.date; an answer is                                        *)
(*   k        ok (200 and a JSON list / object) or failed (no response, a  *)
(*            status raise_for_status rejects, a body that is no JSON)     *)
(*   commits  the commits of the list                                      *)
(*   stars    stargazers_count                                             *)
(***************************************************************************)
GithubAnswer(k, commits, stars) == [k |-> k, commits |-> commits, stars |-> stars]

GithubFailed == GithubAnswer("failed", <<>>, 0)

\* the author dates of the commits of an answer: missing, no date, or a
\* datetime of one of the last days
CommitDates == {Absent, BadStr, DtStr(Today), DtStr(Today - 1)}

\* the commit lists of at most n commits
RECURSIVE CommitLists(_)
CommitLists(n) ==
    IF n = 0 THEN {<<>>}
    ELSE CommitLists(n - 1)
            \cup {Append(l, d) : l \in {m \in CommitLists(n - 1) : Len(m) = n - 1},
                                 d \in CommitDates}

\* what the commits request of the package at position k is answered with
CommitAnswers(k) ==
    {GithubFailed}
        \cup {GithubAnswer("ok", l, 0) :
                 l \in (IF k = 1 THEN CommitLists(MaxCommits)
                        ELSE {<<>>, <<DtStr(Today)>>})}

\* what the repository request of a package is answered with
RepoAnswers == {GithubFailed, GithubAnswer("ok", <<>>, 0), GithubAnswer("ok", <<>>, 7)}

\* CommitCutoff taken as today
CommitCutoffToday(days) == Today

\* cutoff.date(), cutoff = datetime.utcnow() - timedelta(days=days), line 521
CommitCutoff(days) == Today - days

\* lines 522-533: the commits the loop counts, those whose date is there,
\* parses and is not before the cutoff
Counted(commits, days) ==
    {i \in 1..Len(commits) :
        /\ Truthy(Get(commits[i]))
        /\ IsoParses(commits[i])
        /\ IsoDate(commits[i]) >= CommitCutoff(days)}

\* counts.get(day, 0), line 537
CommitCount(commits, days, day) ==
    Cardinality({i \in Counted(commits, days) : IsoDate(commits[i]) = day})

\* _fetch_commits_for_repo(repo, days) for an answer that is ok, lines
\* 534-538, under the package's key (lines 561-564)
CommitSeries(commits, days) ==
    [i \in 1..days |->
        SeriesPoint(DateStr(Today - (days - i)),
                    IntV(CommitCount(commits, days, Today - (days - i))))]

\* lines 550-567 with live data: the commits of the package the loop is at
\* are fetched and counted; a request that fails leaves a synthetic series
CardCommits ==
    /\ card.pc = "loop"
    /\ card.kind = "commits" /\ ~card.mock
    /\ card.k <= Len(Packages)
    /\ \E answer \in CommitAnswers(card.k) :
          \E draw \in (IF answer.k = "failed" THEN NoiseDraws ELSE {0}) :
             LET pkg == Packages[card.k]
             IN  card' = [card EXCEPT
                            !.k = card.k + 1,
                            !.requests = Append(card.requests,
                                            [package |-> pkg, api |-> "commits"]),
                            !.answers = Append(card.answers, answer),
                            !.series = Append(card.series,
                                          IF answer.k = "failed"
                                          THEN SynthSeries(card.days, 5, 100, 3, draw)
                                          ELSE CommitSeries(answer.commits, card.days)),
                            !.fell = IF answer.k = "failed"
                                     THEN card.fell \cup {pkg} ELSE card.fell]
    /\ UNCHANGED <<norm, pypi, npm, saas>>

\* lines 645-674 with live data: the stars of the package the loop is at,
\* 0 when the request fails, as its value in the row of today
CardLikes ==
    /\ card.pc = "loop"
    /\ card.kind = "likes" /\ ~card.mock
    /\ card.k <= Len(Packages)
    /\ \E answer \in RepoAnswers :
          LET pkg == Packages[card.k]
              likes == IF answer.k = "failed" THEN 0 ELSE answer.stars
          IN  card' = [card EXCEPT
                         !.k = card.k + 1,
                         !.requests = Append(card.requests,
                                         [package |-> pkg, api |-> "repo"]),
                         !.answers = Append(card.answers, answer),
                         !.series = Append(card.series,
                                       <<SeriesPoint(DateStr(Today), IntV(likes))>>)]
    /\ UNCHANGED <<norm, pypi, npm, saas>>

InitHandlers ==
    /\ saas = SaasIdle
    /\ norm = NormIdle
    /\ pypi = PypiIdle
    /\ npm = NpmIdle
    /\ card \in {[CardIdle EXCEPT !.pc = "idle", !.kind = km[1], !.mock = km[2]] :
                    km \in {<<"downloads", FALSE>>, <<"downloads", TRUE>>,
                            <<"commits", FALSE>>, <<"commits", TRUE>>,
                            <<"likes", FALSE>>, <<"likes", TRUE>>}}

NextHandlers ==
    CardStep \/ CardMock \/ CardCommits \/ CardLikes \/ NpmStep \/ PypiStep

SpecHandlers == InitHandlers /\ [][NextHandlers]_vars

\* C23: with mocked data each of the three handlers works with
\* days = max(requested days, 365), sends no request to any upstream, and
\* returns a merged series of exactly that many points
C23_MockedNoNetwork ==
    card.mock =>
        /\ npm.log = <<>> /\ pypi.log = <<>> /\ card.requests = <<>>
        /\ npm.pc = "off" /\ pypi.pc = "off"
        /\ card.pc \in {"loop", "done"} /\ card.outcome # "raised" =>
              card.days = Max(IntOf(GetOr(card.param, IntV(DefaultDays))), MockMinDays)
        /\ card.pc = "done" /\ card.outcome # "raised" =>
              /\ card.outcome = "returned"
              /\ Len(card.merged) = card.days
              /\ \A idx \in 1..Len(card.merged) :
                    /\ card.merged[idx].date = DateStr(Today - (card.days - idx))
                    /\ DOMAIN card.merged[idx].values = 1..Len(Packages)

\* the mocked likes card was asked for one day more than a year and returned
\* as many points
C23_Witness ==
    /\ card.mock
    /\ card.kind = "likes"
    /\ card.pc = "done"
    /\ card.param = NumStr(MockMinDays + 1)
    /\ Len(card.merged) = MockMinDays + 1

InitSaas ==
    /\ norm = NormIdle
    /\ pypi = PypiIdle
    /\ npm = NpmIdle
    /\ card = CardIdle
    /\ saas \in {[SaasIdle EXCEPT !.pc = "idle", !.handler = h] :
                    h \in {"mrr_overview", "saas_user_growth", "revenue_trend"}}

NextSaas ==
    SaasMrr \/ SaasUserGrowth \/ SaasRevenueStart \/ SaasRevenueYield \/ SaasRevenueEnd

SpecSaas == InitSaas /\ [][NextSaas]_vars

\* the number of commits of the list whose author date is a date of the day
CommitsOn(commits, day) ==
    Cardinality({i \in 1..Len(commits) :
                    commits[i].t \in {"datestr", "dtstr"} /\ commits[i].n = day})

\* C25: for a commits request that succeeds _fetch_commits_for_repo returns
\* `days` points (none for a `days` below 1), one per consecutive day ending
\* today in ascending order, each with the number of fetched commits authored
\* on that day (0 without any); a commit with a missing or unparseable date
\* is skipped and the call does not fail
C25_CommitsPerDay ==
    card.kind = "commits" /\ ~card.mock =>
        \A j \in 1..Len(card.answers) :
            card.answers[j].k = "ok" =>
                /\ Packages[j] \notin card.fell
                /\ Len(card.series[j]) = Max(card.days, 0)
                /\ \A i \in 1..Len(card.series[j]) :
                      /\ card.series[j][i].date = DateStr(Today - card.days + i)
                      /\ card.series[j][i].value =
                            IntV(CommitsOn(card.answers[j].commits,
                                           Today - card.days + i))

\* two days were asked for and the first repository answered with a commit
\* without a usable date and a commit of yesterday
C25_Witness ==
    /\ card.kind = "commits" /\ ~card.mock
    /\ card.pc = "done"
    /\ card.days = 2
    /\ card.answers[1] = GithubAnswer("ok", <<BadStr, DtStr(Today - 1)>>, 0)
    /\ card.series[1] = <<SeriesPoint(DateStr(Today - 1), IntV(1)),
                          SeriesPoint(DateStr(Today), IntV(0))>>

\* the rows of the chunks one after the other
RECURSIVE Flatten(_)
Flatten(chunks) ==
    IF chunks = <<>> THEN <<>> ELSE Head(chunks) \o Flatten(Tail(chunks))

\* C24: RevenueTrendCard.handler yields the filtered series as consecutive
\* chunks of at most 7 rows that do not overlap: the data of the records
\* yielded so far, in emission order, is a prefix of the filtered series and
\* the whole of it when the handler ends; an empty series yields no record
C24_ChunkedStream ==
    saas.handler = "revenue_trend" /\ saas.pc \in {"stream", "done"} =>
        LET rows == Flatten(saas.yielded)
        IN  /\ \A c \in 1..Len(saas.yielded) :
                  /\ Len(saas.yielded[c]) >= 1
                  /\ Len(saas.yielded[c]) <= 7
            /\ Len(rows) <= Len(saas.series)
            /\ rows = SubSeq(saas.series, 1, Len(rows))
            /\ saas.pc = "done" => rows = saas.series
            /\ saas.series = <<>> => saas.yielded = <<>>

\* ten rows passed the filters and went out as a chunk of seven and a chunk
\* of three
C24_Witness ==
    /\ saas.handler = "revenue_trend"
    /\ saas.pc = "done"
    /\ Len(saas.series) = 10
    /\ Len(saas.yielded) = 2
    /\ Len(saas.yielded[1]) = 7
    /\ Len(saas.yielded[2]) = 3

\* C27: MrrOverviewCard.handler returns a number record whatever the filters
\* are; when they leave no row it returns value 0 and no previous value
C27_MrrAlwaysReturns ==
    saas.handler = "mrr_overview" /\ saas.pc = "done" =>
        /\ saas.outcome = "returned"
        /\ saas.series = <<>> =>
              /\ saas.record.value = IntV(0)
              /\ saas.record.previousValue = NoneV

\* C28: SaasUserGrowthCard.handler returns a number record for every integer
\* `dau` override, its trend percentage being defined for each
C28_TrendDefined ==
    saas.handler = "saas_user_growth" /\ saas.pc = "done" =>
        /\ saas.outcome = "returned"
        /\ saas.record.trend.t = "int"

====
